---- MODULE Spec2Model ----
(***************************************************************************)
(* Model of migrate_to_maven (src/main.py): the jar strategy pipeline      *)
(* (run_jar_strategies and its five strategies), the metadata store with   *)
(* its validators, the manifest parser, the path-commonality inference and *)
(* the process exit status.                                                *)
(*                                                                         *)
(* Strings are sequences of one-character strings, so that the regular     *)
(* expressions, slices and comparisons of the program are computed on      *)
(* characters.  Line terminators are not part of the alphabet: every value *)
(* the program validates comes from str.splitlines() / str.strip() or from *)
(* a file name.                                                            *)
(***************************************************************************)
EXTENDS Integers, Sequences, FiniteSets, TLC

(***************************************************************************)
(* Bounds of the model.                                                    *)
(***************************************************************************)
MaxJars == 3
MaxJavaIssues == 1
MaxIssues == 259

(***************************************************************************)
(* Characters.                                                             *)
(***************************************************************************)
AsciiOrder == <<" ","!","#","$","%","&","'","(",")","*","+",",","-",".","/","0","1","2","3","4","5","6","7","8","9",":",";","<","=",">","?","@","A","B","C","D","E","F","G","H","I","J","K","L","M","N","O","P","Q","R","S","T","U","V","W","X","Y","Z","[","\\","]","^","_","a","b","c","d","e","f","g","h","i","j","k","l","m","n","o","p","q","r","s","t","u","v","w","x","y","z","{","|","}","~">>

UpperChars == <<"A","B","C","D","E","F","G","H","I","J","K","L","M","N","O","P","Q","R","S","T","U","V","W","X","Y","Z">>

LowerChars == <<"a","b","c","d","e","f","g","h","i","j","k","l","m","n","o","p","q","r","s","t","u","v","w","x","y","z">>

Digits == {"0","1","2","3","4","5","6","7","8","9"}

Range(s) == {s[i] : i \in 1..Len(s)}

\* rank of a character in code point order (str comparison of Python);
\* AsciiOrder lists the alphabet in increasing code point order
Ord(c) == (CHOOSE i \in 1..Len(AsciiOrder) : AsciiOrder[i] = c)

\* the character class \s restricted to the alphabet
IsSpace(c) == c \in {" ", "\t"}

\* the character class [a-z|A-Z]: the letters and the literal bar
IsAlphaClass(c) == c \in Range(UpperChars) \cup Range(LowerChars) \cup {"|"}

LowerChar(c) ==
    IF c \in Range(UpperChars)
    THEN LowerChars[CHOOSE i \in 1..26 : UpperChars[i] = c]
    ELSE c

ToLower(s) == [i \in 1..Len(s) |-> LowerChar(s[i])]

\* s[a:] of Python with a >= 0 (0-based start)
SliceFrom(s, a) == IF a >= Len(s) THEN <<>> ELSE SubSeq(s, a + 1, Len(s))

\* s[:b] of Python with 0 <= b
SliceTo(s, b) == IF b >= Len(s) THEN s ELSE SubSeq(s, 1, b)

\* str.strip()
RECURSIVE LStrip(_)
LStrip(s) == IF s /= <<>> /\ IsSpace(Head(s)) THEN LStrip(Tail(s)) ELSE s

RECURSIVE RStrip(_)
RStrip(s) ==
    IF s /= <<>> /\ IsSpace(s[Len(s)]) THEN RStrip(SubSeq(s, 1, Len(s) - 1)) ELSE s

Strip(s) == RStrip(LStrip(s))

\* sub in s  (literal substring test)
Contains(s, sub) ==
    \E i \in 0..(Len(s) - Len(sub)) : SubSeq(s, i + 1, i + Len(sub)) = sub

\* str.endswith(suffix)
EndsWith(s, suffix) ==
    /\ Len(s) >= Len(suffix)
    /\ SubSeq(s, Len(s) - Len(suffix) + 1, Len(s)) = suffix

\* a < b for str (lexicographic by code point)
RECURSIVE StrLess(_, _)
StrLess(a, b) ==
    IF b = <<>> THEN FALSE
    ELSE IF a = <<>> THEN TRUE
    ELSE IF Head(a) = Head(b) THEN StrLess(Tail(a), Tail(b))
    ELSE Ord(Head(a)) < Ord(Head(b))

\* list(dict.fromkeys(l)): first occurrences, order kept
RECURSIVE remove_duplicates(_)
remove_duplicates(ordered_list) ==
    IF ordered_list = <<>> THEN <<>>
    ELSE LET init == remove_duplicates(SubSeq(ordered_list, 1, Len(ordered_list) - 1))
             last == ordered_list[Len(ordered_list)]
         IN IF last \in Range(init) THEN init ELSE Append(init, last)

(***************************************************************************)
(* Field validators.                                                       *)
(***************************************************************************)
None == <<"None">>

FieldNames == {"name", "group-id", "artifact-id", "version"}

\* ^.+\..+$
DOT_DELIMINATED(s) == \E i \in 2..(Len(s) - 1) : s[i] = "."

\* ^.*[0-9]+.*$
CONTAINS_NUMERIC_VALUES(s) == \E i \in 1..Len(s) : s[i] \in Digits

\* ^.*[a-z|A-Z]+.*$
CONTAINS_ALPHA_VALUES(s) == \E i \in 1..Len(s) : IsAlphaClass(s[i])

\* ^\s*\S+\s*$: between the leading and the trailing whitespace there is at
\* least one character and no whitespace
CONTAINS_NO_SPACES(s) ==
    LET inner == Strip(s)
    IN inner /= <<>> /\ \A i \in 1..Len(inner) : ~IsSpace(inner[i])

test_metadata_against_type_criteria(metadata_key, metadata_value) ==
    IF metadata_value = None THEN FALSE
    ELSE CASE metadata_key = "name" -> CONTAINS_ALPHA_VALUES(metadata_value)
           [] metadata_key = "group-id" ->
                CONTAINS_ALPHA_VALUES(metadata_value) /\ CONTAINS_NO_SPACES(metadata_value)
           [] metadata_key = "artifact-id" ->
                CONTAINS_ALPHA_VALUES(metadata_value) /\ CONTAINS_NO_SPACES(metadata_value)
           [] metadata_key = "version" ->
                /\ DOT_DELIMINATED(metadata_value)
                /\ CONTAINS_NUMERIC_VALUES(metadata_value)
                /\ CONTAINS_NO_SPACES(metadata_value)

(***************************************************************************)
(* Dictionaries: a dict with str keys is a function whose domain is the    *)
(* set of keys.  The metadata store, whose key order is observable (the    *)
(* metadata-driven install iterates over it), is a sequence of entries in  *)
(* insertion order.                                                        *)
(***************************************************************************)
EmptyDict == [k \in {} |-> <<>>]

DictSet(d, k, v) == [x \in (DOMAIN d) \cup {k} |-> IF x = k THEN v ELSE d[x]]

HasJar(store, jar) == \E i \in 1..Len(store) : store[i].jar = jar

GetMeta(store, jar) == store[CHOOSE i \in 1..Len(store) : store[i].jar = jar].meta

PutMeta(store, jar, meta) ==
    IF HasJar(store, jar)
    THEN [i \in 1..Len(store) |->
            IF store[i].jar = jar THEN [jar |-> jar, meta |-> meta] ELSE store[i]]
    ELSE Append(store, [jar |-> jar, meta |-> meta])

(***************************************************************************)
(* Manifest extractor.                                                     *)
(***************************************************************************)
H_ExtensionName == <<"E","x","t","e","n","s","i","o","n","-","N","a","m","e",":">>
H_ImplementationTitle == <<"I","m","p","l","e","m","e","n","t","a","t","i","o","n","-","T","i","t","l","e",":">>
H_BundleSymbolicName == <<"B","u","n","d","l","e","-","S","y","m","b","o","l","i","c","N","a","m","e",":">>
H_SpecificationTitle == <<"S","p","e","c","i","f","i","c","a","t","i","o","n","-","T","i","t","l","e",":">>
H_ImplementationVendorId == <<"I","m","p","l","e","m","e","n","t","a","t","i","o","n","-","V","e","n","d","o","r","-","I","d",":">>
H_BundleVersion == <<"B","u","n","d","l","e","-","V","e","r","s","i","o","n",":">>
H_SpecificationVersion == <<"S","p","e","c","i","f","i","c","a","t","i","o","n","-","V","e","r","s","i","o","n",":">>
H_ImplementationVersion == <<"I","m","p","l","e","m","e","n","t","a","t","i","o","n","-","V","e","r","s","i","o","n",":">>

\* the keys of the search map, in the order the dict literal lists them
metadata_keys == <<"name", "group-id", "artifact-id", "version">>

\* precedence is right to left: worst guess first, best guess last
metadata_key_to_manifest_search_strings_map(metadata_key) ==
    CASE metadata_key = "name" ->
           <<H_ExtensionName, H_ImplementationTitle, H_BundleSymbolicName, H_SpecificationTitle>>
      [] metadata_key = "group-id" ->
           <<H_SpecificationTitle, H_ImplementationVendorId, H_ImplementationTitle>>
      [] metadata_key = "artifact-id" ->
           <<H_SpecificationTitle, H_ExtensionName, H_ImplementationTitle, H_BundleSymbolicName>>
      [] metadata_key = "version" ->
           <<H_BundleVersion, H_SpecificationVersion, H_ImplementationVersion>>

\* re.search(manifest_string, line, flags=re.IGNORECASE); the headers hold
\* no regular-expression metacharacter
re_search_ignorecase(manifest_string, line) ==
    Contains(ToLower(line), ToLower(manifest_string))

\* match.string[len(manifest_string):].strip(): the slice is taken from the
\* start of the line, wherever the header was found
match_cleaned(manifest_string, line) == Strip(SliceFrom(line, Len(manifest_string)))

RECURSIVE parse_manifest_lines(_, _, _, _)
parse_manifest_lines(found_metadata, metadata_key, manifest_string, lines) ==
    IF lines = <<>> THEN found_metadata
    ELSE LET line == Head(lines)
             next == IF line /= <<>> /\ re_search_ignorecase(manifest_string, line)
                     THEN DictSet(found_metadata, metadata_key,
                                  match_cleaned(manifest_string, line))
                     ELSE found_metadata
         IN parse_manifest_lines(next, metadata_key, manifest_string, Tail(lines))

RECURSIVE parse_manifest_strings(_, _, _, _)
parse_manifest_strings(found_metadata, metadata_key, manifest_strings, lines) ==
    IF manifest_strings = <<>> THEN found_metadata
    ELSE parse_manifest_strings(
            parse_manifest_lines(found_metadata, metadata_key, Head(manifest_strings), lines),
            metadata_key, Tail(manifest_strings), lines)

RECURSIVE parse_manifest_keys(_, _, _)
parse_manifest_keys(found_metadata, keys, lines) ==
    IF keys = <<>> THEN found_metadata
    ELSE parse_manifest_keys(
            parse_manifest_strings(found_metadata, Head(keys),
                metadata_key_to_manifest_search_strings_map(Head(keys)), lines),
            Tail(keys), lines)

\* manifest is the text as the sequence manifest.splitlines(keepends=False);
\* the empty text is the empty sequence
parse_manifest(manifest) ==
    IF manifest = <<>> THEN EmptyDict
    ELSE parse_manifest_keys(EmptyDict, metadata_keys, manifest)

(***************************************************************************)
(* Metadata store: merge and validated insertion.                          *)
(***************************************************************************)
\* mutant: the overwrite flag is ignored, a present key is always replaced
merge_metadata_always_overwrite(base_metadata, metadata_to_merge_in, overwrite) ==
    IF DOMAIN base_metadata = {} THEN metadata_to_merge_in
    ELSE IF DOMAIN metadata_to_merge_in = {} THEN base_metadata
    ELSE [key \in (DOMAIN base_metadata) \cup (DOMAIN metadata_to_merge_in) |->
            IF key \in DOMAIN metadata_to_merge_in
            THEN metadata_to_merge_in[key]
            ELSE base_metadata[key]]

merge_metadata(base_metadata, metadata_to_merge_in, overwrite) ==
    IF DOMAIN base_metadata = {} THEN metadata_to_merge_in
    ELSE IF DOMAIN metadata_to_merge_in = {} THEN base_metadata
    ELSE [key \in (DOMAIN base_metadata) \cup
                  {k \in DOMAIN metadata_to_merge_in : metadata_to_merge_in[k] /= None} |->
            IF /\ key \in DOMAIN metadata_to_merge_in
               /\ metadata_to_merge_in[key] /= None
               /\ (overwrite \/ key \notin DOMAIN base_metadata)
            THEN metadata_to_merge_in[key]
            ELSE base_metadata[key]]

\* mutant: every candidate is kept, the validator is not consulted
valid_metadata_of_unchecked(metadata) == metadata

valid_metadata_of(metadata) ==
    [metadata_key \in {k \in DOMAIN metadata :
                          test_metadata_against_type_criteria(k, metadata[k])} |->
        metadata[metadata_key]]

add_to_global_metadata(store, jar, metadata, overwrite) ==
    IF jar /= <<>> /\ DOMAIN metadata /= {}
    THEN LET valid_metadata == valid_metadata_of(metadata)
         IN IF HasJar(store, jar)
            THEN PutMeta(store, jar,
                         merge_metadata(GetMeta(store, jar), valid_metadata, overwrite))
            ELSE PutMeta(store, jar, valid_metadata)
    ELSE store

(***************************************************************************)
(* Path commonality inference.                                             *)
(***************************************************************************)
DotClass == <<".","c","l","a","s","s">>

COMMONALITY_THRESHOLD_PERCENT == 80

Deliminators == {"$", "/", "\\"}

\* the 0-based indices of the delimiters, increasing
deliminator_indices(substring) ==
    LET IsAt(i) == substring[i + 1] \in Deliminators
    IN SelectSeq([i \in 1..Len(substring) |-> i - 1], IsAt)

\* re.sub("(\$)?[0-9]*\.class$", '', substring), case-insensitive: the
\* leftmost match takes the whole digit run before ".class" and a "$" that
\* precedes it
RECURSIVE TrailingDigitRun(_)
TrailingDigitRun(s) ==
    IF s /= <<>> /\ s[Len(s)] \in Digits
    THEN 1 + TrailingDigitRun(SubSeq(s, 1, Len(s) - 1))
    ELSE 0

remove_path_suffix(substring) ==
    IF substring = <<>> THEN <<>>
    ELSE IF ~EndsWith(ToLower(substring), DotClass) THEN substring
    ELSE LET p == Len(substring) - Len(DotClass)
             q == p - TrailingDigitRun(SubSeq(substring, 1, p))
             r == IF q >= 1 /\ substring[q] = "$" THEN q - 1 ELSE q
         IN SubSeq(substring, 1, r)

\* occurrences[substring] after the double loop: one increment for every
\* pair (position holding substring, compare_string containing it)
occurrences_of(all_substrings, substring) ==
    Cardinality({i \in 1..Len(all_substrings) : all_substrings[i] = substring})
    * Cardinality({j \in 1..Len(all_substrings) : Contains(all_substrings[j], substring)})

\* max() of a non-empty set of str
StrMax(strings) ==
    CHOOSE m \in strings : \A x \in strings : x = m \/ StrLess(x, m)

\* the result of sorted() is discarded, so maximum_occurrence is the count of
\* the first key inserted, that is of all_substrings[0]
find_longest_common_substring(all_substrings) ==
    IF all_substrings = <<>> THEN <<>>
    ELSE LET maximum_occurrence == occurrences_of(all_substrings, all_substrings[1])
             threshold == (maximum_occurrence * COMMONALITY_THRESHOLD_PERCENT) \div 100
             high_occurrence_strings ==
                 {x \in Range(all_substrings) :
                     occurrences_of(all_substrings, x) >= threshold}
         IN StrMax(high_occurrence_strings)

\* ^.+\.class$ with re.IGNORECASE
ends_in_dot_class(path_string) ==
    Len(path_string) > Len(DotClass) /\ EndsWith(ToLower(path_string), DotClass)

RECURSIVE cleaned_prefixes(_, _)
cleaned_prefixes(path_string, delimiters) ==
    IF delimiters = <<>> THEN <<>>
    ELSE LET substring == SliceTo(path_string, Head(delimiters))
             rest == cleaned_prefixes(path_string, Tail(delimiters))
         IN IF substring /= <<>>
            THEN <<remove_path_suffix(substring)>> \o rest
            ELSE rest

RECURSIVE all_substrings_of(_)
all_substrings_of(path_strings) ==
    IF path_strings = <<>> THEN <<>>
    ELSE LET path_string == Head(path_strings)
             rest == all_substrings_of(Tail(path_strings))
         IN IF path_string = <<>> \/ ~ends_in_dot_class(path_string)
            THEN rest
            ELSE cleaned_prefixes(path_string,
                    Append(deliminator_indices(path_string), Len(path_string))) \o rest

find_most_common_substring(path_strings) ==
    LET all_substrings == all_substrings_of(path_strings)
    IN IF all_substrings /= <<>>
       THEN find_longest_common_substring(remove_duplicates(all_substrings))
       ELSE <<>>

RECURSIVE deliminators_to_dots(_)
RECURSIVE deliminators_to_dots_loop(_, _)
deliminators_to_dots_loop(deliminated_string, indices) ==
    IF indices = <<>> THEN deliminated_string
    ELSE deliminators_to_dots_loop(
            SliceTo(deliminated_string, Head(indices)) \o <<".">>
                \o deliminators_to_dots(SliceFrom(deliminated_string, Head(indices) + 1)),
            Tail(indices))

deliminators_to_dots(deliminated_string) ==
    IF deliminated_string = <<>> THEN <<>>
    ELSE deliminators_to_dots_loop(deliminated_string,
                                   deliminator_indices(deliminated_string))

\* str.rfind('.'): 0-based index of the last '.', -1 when there is none
rfind_dot(s) ==
    IF \E i \in 1..Len(s) : s[i] = "."
    THEN (CHOOSE i \in 1..Len(s) : s[i] = "." /\ \A j \in (i + 1)..Len(s) : s[j] /= ".") - 1
    ELSE -1

\* the candidates built from the listing of one jar; jar_file_tree_list is
\* jar_file_tree.splitlines(), empty when the listing failed
infer_metadata_to_add(jar_file_tree_list) ==
    LET common_substring == find_most_common_substring(jar_file_tree_list)
        group_id == deliminators_to_dots(common_substring)
    IN IF group_id = <<>> THEN EmptyDict
       ELSE [k \in {"group-id", "artifact-id"} |->
               IF k = "group-id" THEN group_id
               ELSE IF "." \in Range(group_id)
                    THEN SliceFrom(group_id, rfind_dot(group_id) + 1)
                    ELSE group_id]

(***************************************************************************)
(* Dummy fill.                                                             *)
(***************************************************************************)
DummyVersion == <<"1", ".", "0">>

\* str.split('/')
RECURSIVE SplitSlash(_)
SplitSlash(path) ==
    IF "/" \notin Range(path) THEN <<path>>
    ELSE LET i == CHOOSE k \in 1..Len(path) :
                     path[k] = "/" /\ \A j \in 1..(k - 1) : path[j] /= "/"
         IN <<SubSeq(path, 1, i - 1)>> \o SplitSlash(SliceFrom(path, i))

RECURSIVE JoinSlash(_)
JoinSlash(comps) ==
    IF comps = <<>> THEN <<>>
    ELSE IF Len(comps) = 1 THEN comps[1]
    ELSE comps[1] \o <<"/">> \o JoinSlash(Tail(comps))

\* the component loop of posixpath.normpath
RECURSIVE normpath_comps(_, _, _)
normpath_comps(comps, new_comps, initial_slashes) ==
    IF comps = <<>> THEN new_comps
    ELSE LET comp == Head(comps)
             dotdot == <<".", ".">>
             next ==
                 IF comp = <<>> \/ comp = <<".">> THEN new_comps
                 ELSE IF \/ comp /= dotdot
                         \/ (initial_slashes = 0 /\ new_comps = <<>>)
                         \/ (new_comps /= <<>> /\ new_comps[Len(new_comps)] = dotdot)
                      THEN Append(new_comps, comp)
                 ELSE IF new_comps /= <<>>
                      THEN SubSeq(new_comps, 1, Len(new_comps) - 1)
                 ELSE new_comps
         IN normpath_comps(Tail(comps), next, initial_slashes)

os_path_normpath(path) ==
    IF path = <<>> THEN <<".">>
    ELSE LET initial_slashes ==
                 IF Head(path) /= "/" THEN 0
                 ELSE IF Len(path) >= 2 /\ path[2] = "/" /\ ~(Len(path) >= 3 /\ path[3] = "/")
                      THEN 2
                 ELSE 1
             comps == normpath_comps(SplitSlash(path), <<>>, initial_slashes)
             joined == [i \in 1..initial_slashes |-> "/"] \o JoinSlash(comps)
         IN IF joined = <<>> THEN <<".">> ELSE joined

\* os.path.basename: what follows the last '/'
os_path_basename(path) ==
    LET comps == SplitSlash(path) IN comps[Len(comps)]

RECURSIVE fill_metadata(_, _, _, _)
fill_metadata(store, jars, metadata_key, metadata_value) ==
    IF jars = <<>> THEN store
    ELSE LET jar == Head(jars)
             insert_value == IF metadata_value = None
                             THEN os_path_basename(os_path_normpath(jar))
                             ELSE metadata_value
             next ==
                 IF ~HasJar(store, jar)
                 THEN PutMeta(store, jar, DictSet(EmptyDict, metadata_key, insert_value))
                 ELSE IF metadata_key \notin DOMAIN GetMeta(store, jar)
                      THEN add_to_global_metadata(store, jar,
                               DictSet(EmptyDict, metadata_key, insert_value), FALSE)
                 ELSE store
         IN fill_metadata(next, Tail(jars), metadata_key, metadata_value)

\* mutant: the group-id fill is left out
metadata_strategy_fill_dummy_values_no_group_id(store, jars) ==
    LET s1 == fill_metadata(store, jars, "version", DummyVersion)
        s2 == fill_metadata(s1, jars, "name", None)
    IN fill_metadata(s2, jars, "artifact-id", None)

metadata_strategy_fill_dummy_values(store, jars) ==
    LET s1 == fill_metadata(store, jars, "version", DummyVersion)
        s2 == fill_metadata(s1, jars, "name", None)
        s3 == fill_metadata(s2, jars, "artifact-id", None)
    IN fill_metadata(s3, jars, "group-id", None)

(***************************************************************************)
(* The inputs of a run: the jars identify_all_jars can return and what the *)
(* external collaborators can answer for a jar.                            *)
(***************************************************************************)
JarPool ==
    { <<"d","/","a",".","j","a","r">>,
      <<"d","/","b"," ","c",".","j","a","r">>,
      <<".","/","l","/","/","f",".","j","a","r">> }

\* identify_all_jars returns a duplicate-free list (dict.fromkeys)
JarLists ==
    {l \in UNION {[1..n -> JarPool] : n \in 0..MaxJars} :
        \A i, j \in 1..Len(l) : i /= j => l[i] /= l[j]}

\* listings of "unzip -l": a package tree, a tree whose common prefix has no
\* letter, no compiled unit at all
ListingPool ==
    { << <<"o","/","a","/","w","/","F",".","c","l","a","s","s">>,
         <<"o","/","a","/","w","/","B",".","c","l","a","s","s">>,
         <<"o","/","a","/","g","/","Z",".","c","l","a","s","s">> >>,
      << <<"1","/","2",".","c","l","a","s","s">> >>,
      << <<"R","E","A","D","M","E">> >> }

\* manifests: full coordinates, values the validators reject (only the name
\* passes), no header the extractor knows
ManifestPool ==
    { << <<"I","m","p","l","e","m","e","n","t","a","t","i","o","n","-","T","i","t","l","e",":"," ","l","i","b">>,
         <<"I","m","p","l","e","m","e","n","t","a","t","i","o","n","-","V","e","r","s","i","o","n",":"," ","2",".","1">> >>,
      << <<"I","m","p","l","e","m","e","n","t","a","t","i","o","n","-","T","i","t","l","e",":"," ","m","y"," ","l","i","b">>,
         <<"B","u","n","d","l","e","-","V","e","r","s","i","o","n",":"," ","x">> >>,
      << <<"M","a","n","i","f","e","s","t","-","V","e","r","s","i","o","n",":"," ","1",".","0">> >> }

\* os.system: exit status zero, a non-zero status, or an exception
InstallResponses == {"zero", "nonzero", "raised"}

\* subprocess.check_output: the decoded output, or an exception, after which
\* the text keeps its initial value ''
ListingResponses ==
    {[raised |-> FALSE, lines |-> l] : l \in ListingPool}
        \cup {[raised |-> TRUE, lines |-> <<>>]}

ManifestResponses ==
    {[raised |-> FALSE, lines |-> m] : m \in ManifestPool}
        \cup {[raised |-> TRUE, lines |-> <<>>]}

\* what the collaborators may answer for one jar: the plain install command,
\* the listing, the manifest, the install command with full coordinates
AnyCollaborator ==
    [direct |-> InstallResponses, listing |-> ListingResponses,
     manifest |-> ManifestResponses, coordinates |-> InstallResponses]

(***************************************************************************)
(* State.                                                                  *)
(***************************************************************************)
VARIABLES
    pc,                     \* position in __main__
    found_jars,             \* result of identify_all_jars
    remaining,              \* the Pending Set of run_jar_strategies
    step,                   \* number of the strategy being run (1..5)
    idx,                    \* 1-based position of the strategy's loop
    successes,              \* the successes list of try_maven_install
    GLOBAL_FOUND_METADATA,  \* the Metadata Store
    jar_issues,
    java_file_issues,
    exit_status,            \* the status the operating system sees, -1 before exit
    collaborators,          \* environment: the answers possible for each jar
    processed,              \* history: jars the running strategy has handled
    failed,                 \* history: jars whose collaborator call failed in it
    ran,                    \* history: strategies that have returned
    maven_repo,             \* the installs done by the external mvn, in order
    GLOBAL_LOOSE_JAVA_FILES,      \* .java files found outside the jars
    GLOBAL_JAVA_FILES_IN_JARS,    \* .java and .class entries found inside the jars
    loose_java_file_paths,        \* result of identify_unique_loose_java_files
    java_file_paths_with_src_dir, \* result of with_src_main
    java_files_skipped,           \* the unique files with_src_main left out
    paths_idx,                    \* 1-based position of from_root_to_src_dir's for loop
    path_from_root_to_component,  \* head of the walk in from_root_to_src_dir
    path_component,               \* tail of the walk in from_root_to_src_dir
    src_paths,                    \* the list from_root_to_src_dir builds
    iterations,                   \* history: while-loop passes made for the current path
    dirs_to_copy,                 \* the staging plan
    call,                   \* a pure function under check and its arguments
    ret                     \* what the call returned

source_vars == <<GLOBAL_LOOSE_JAVA_FILES, GLOBAL_JAVA_FILES_IN_JARS,
                 loose_java_file_paths, java_file_paths_with_src_dir,
                 java_files_skipped, paths_idx, path_from_root_to_component,
                 path_component, src_paths, iterations, dirs_to_copy>>

call_vars == <<call, ret>>

jar_vars == <<found_jars, remaining, step, idx, successes, GLOBAL_FOUND_METADATA,
              jar_issues, java_file_issues, exit_status,
              collaborators, processed, failed, ran, maven_repo>>

vars == <<pc, jar_vars, source_vars, call_vars>>

\* the source reconciliation has not started
NoSources ==
    /\ GLOBAL_LOOSE_JAVA_FILES = <<>>
    /\ GLOBAL_JAVA_FILES_IN_JARS = <<>>
    /\ loose_java_file_paths = <<>>
    /\ java_file_paths_with_src_dir = <<>>
    /\ java_files_skipped = {}
    /\ paths_idx = 1
    /\ path_from_root_to_component = <<>>
    /\ path_component = <<>>
    /\ src_paths = <<>>
    /\ iterations = 0
    /\ dirs_to_copy = <<>>

\* no pure function is being applied
NoCall ==
    /\ call = <<>>
    /\ ret = <<>>

(***************************************************************************)
(* run_strategy, run_jar_strategies.                                       *)
(***************************************************************************)
\* mutant: the membership test is inverted
remove_all_from_list_inverted(a_list, to_remove) ==
    IF to_remove /= <<>>
    THEN LET Keep(i) == i \in Range(to_remove) IN SelectSeq(a_list, Keep)
    ELSE a_list

remove_all_from_list(a_list, to_remove) ==
    IF to_remove /= <<>>
    THEN LET Keep(i) == i \notin Range(to_remove) IN SelectSeq(a_list, Keep)
    ELSE a_list

\* mutant: every strategy is handed the full list of discovered jars
run_strategy_argument_all_jars(pending_installs, jars) == jars

\* the list run_jar_strategies hands to run_strategy, and run_strategy to the
\* strategy: the Pending Set
run_strategy_argument(pending_installs, jars) == pending_installs

\* mutant: any non-empty record counts as complete
find_metadata_complete_jars_nonempty(store) ==
    LET IsComplete(e) == DOMAIN e.meta /= {}
        IsIncomplete(e) == ~IsComplete(e)
    IN <<SelectSeq(store, IsComplete), SelectSeq(store, IsIncomplete)>>

\* (complete_metadata, incomplete_metadata), each in the store's key order
find_metadata_complete_jars(store) ==
    LET IsComplete(e) == DOMAIN e.meta /= {} /\ Cardinality(DOMAIN e.meta) = 4
        IsIncomplete(e) == ~IsComplete(e)
    IN <<SelectSeq(store, IsComplete), SelectSeq(store, IsIncomplete)>>

\* [*complete_metadata]
complete_metadata_keys(store) ==
    LET complete_metadata == find_metadata_complete_jars(store)[1]
    IN [i \in 1..Len(complete_metadata) |-> complete_metadata[i].jar]

\* the list the running strategy iterates over
strategy_jars ==
    IF step = 5
    THEN complete_metadata_keys(GLOBAL_FOUND_METADATA)
    ELSE run_strategy_argument(remaining, found_jars)

Init ==
    /\ pc = "start"
    /\ found_jars \in JarLists
    /\ remaining = <<>>
    /\ step = 0
    /\ idx = 0
    /\ successes = <<>>
    /\ GLOBAL_FOUND_METADATA = <<>>
    /\ jar_issues = 0
    /\ java_file_issues = 0
    /\ exit_status = -1
    /\ processed = <<>>
    /\ failed = {}
    /\ ran = <<>>
    /\ maven_repo = <<>>
    /\ collaborators = [jar \in JarPool |-> AnyCollaborator]
    /\ NoSources
    /\ NoCall

\* __main__: no jar found, exit(-1)
FatalNoJars ==
    /\ pc = "start"
    /\ found_jars = <<>>
    /\ pc' = "exited"
    /\ exit_status' = 255
    /\ UNCHANGED <<source_vars, call_vars>>
    /\ UNCHANGED <<found_jars, remaining, step, idx, successes, GLOBAL_FOUND_METADATA,
                   jar_issues, java_file_issues, processed, failed, ran, maven_repo,
                   collaborators>>

\* run_jar_strategies: remaining = jars.copy(), first strategy
BeginStrategies ==
    /\ pc = "start"
    /\ found_jars /= <<>>
    /\ pc' = "strategies"
    /\ remaining' = found_jars
    /\ step' = 1
    /\ idx' = 1
    /\ UNCHANGED <<source_vars, call_vars>>
    /\ UNCHANGED <<found_jars, successes, GLOBAL_FOUND_METADATA, jar_issues,
                   java_file_issues, exit_status, processed, failed, ran, maven_repo,
                   collaborators>>

\* mutant: a failed command leaves the loop, the jars after it are skipped
try_maven_install_stop_on_failure(jars, command) ==
    /\ idx <= Len(jars)
    /\ LET jar == jars[idx]
       IN \E response_code \in collaborators[jar][command] :
            /\ IF response_code = "zero"
               THEN /\ successes' = Append(successes, jar)
                    /\ maven_repo' = Append(maven_repo, jar)
                    /\ failed' = failed
                    /\ idx' = idx + 1
               ELSE /\ failed' = failed \cup {jar}
                    /\ idx' = Len(jars) + 1
                    /\ UNCHANGED <<successes, maven_repo>>
            /\ processed' = Append(processed, jar)
    /\ UNCHANGED <<source_vars, call_vars>>
    /\ UNCHANGED <<pc, found_jars, remaining, step, GLOBAL_FOUND_METADATA, jar_issues,
                   java_file_issues, exit_status, ran, collaborators>>

\* one iteration of the loop of try_maven_install over jars; command is
\* "direct" (no coordinates) or "coordinates" (the placeholders expanded from
\* the jar's record)
try_maven_install(jars, command) ==
    /\ idx <= Len(jars)
    /\ LET jar == jars[idx]
       IN \E response_code \in collaborators[jar][command] :
            /\ IF response_code = "zero"
               THEN /\ successes' = Append(successes, jar)
                    /\ maven_repo' = Append(maven_repo, jar)
                    /\ failed' = failed
               ELSE /\ failed' = failed \cup {jar}
                    /\ UNCHANGED <<successes, maven_repo>>
            /\ processed' = Append(processed, jar)
            /\ idx' = idx + 1
    /\ UNCHANGED <<source_vars, call_vars>>
    /\ UNCHANGED <<pc, found_jars, remaining, step, GLOBAL_FOUND_METADATA, jar_issues,
                   java_file_issues, exit_status, ran, collaborators>>

\* strategy 1
jar_strategy_try_maven_install ==
    /\ pc = "strategies"
    /\ step = 1
    /\ try_maven_install(strategy_jars, "direct")

\* strategy 5
metadata_strategy_maven_install_from_metadata ==
    /\ pc = "strategies"
    /\ step = 5
    /\ try_maven_install(strategy_jars, "coordinates")

\* strategy 2, one iteration
metadata_strategy_infer_from_paths ==
    /\ pc = "strategies"
    /\ step = 2
    /\ idx <= Len(strategy_jars)
    /\ LET jar == strategy_jars[idx]
       IN \E response \in collaborators[jar].listing :
            LET metadata_to_add == infer_metadata_to_add(response.lines)
                store == add_to_global_metadata(GLOBAL_FOUND_METADATA, jar,
                                                metadata_to_add, FALSE)
            IN /\ GLOBAL_FOUND_METADATA' = store
               /\ failed' = IF response.raised THEN failed \cup {jar} ELSE failed
               /\ processed' = Append(processed, jar)
               /\ idx' = idx + 1
    /\ UNCHANGED <<source_vars, call_vars>>
    /\ UNCHANGED <<pc, found_jars, remaining, step, successes, jar_issues,
                   java_file_issues, exit_status, ran, maven_repo, collaborators>>

\* strategy 3, one iteration
metadata_strategy_parse_manifest ==
    /\ pc = "strategies"
    /\ step = 3
    /\ idx <= Len(strategy_jars)
    /\ LET jar == strategy_jars[idx]
       IN \E response \in collaborators[jar].manifest :
            LET found_metadata == parse_manifest(response.lines)
                store == add_to_global_metadata(GLOBAL_FOUND_METADATA, jar,
                                                found_metadata, FALSE)
            IN /\ GLOBAL_FOUND_METADATA' = store
               /\ failed' = IF response.raised THEN failed \cup {jar} ELSE failed
               /\ processed' = Append(processed, jar)
               /\ idx' = idx + 1
    /\ UNCHANGED <<source_vars, call_vars>>
    /\ UNCHANGED <<pc, found_jars, remaining, step, successes, jar_issues,
                   java_file_issues, exit_status, ran, maven_repo, collaborators>>

\* strategy 4 inside run_strategy: the four fills, then the removal of the
\* strategy's result (None) from the Pending Set
FillDummyValues ==
    /\ pc = "strategies"
    /\ step = 4
    /\ LET store == metadata_strategy_fill_dummy_values(GLOBAL_FOUND_METADATA,
                                                        strategy_jars)
       IN /\ GLOBAL_FOUND_METADATA' = store
    /\ remaining' = remove_all_from_list(remaining, <<>>)
    /\ ran' = Append(ran, step)
    /\ step' = 5
    /\ idx' = 1
    /\ UNCHANGED <<source_vars, call_vars>>
    /\ UNCHANGED <<pc, found_jars, successes, jar_issues, java_file_issues, exit_status,
                   processed, failed, maven_repo, collaborators>>

\* run_strategy after strategy 1, 2, 3 or 5 has returned: the Pending Set
\* loses the strategy's result; run_jar_strategies moves on or returns
StrategyReturn ==
    /\ pc = "strategies"
    /\ step \in {1, 2, 3, 5}
    /\ idx > Len(strategy_jars)
    /\ remaining' = remove_all_from_list(remaining, successes)
    /\ ran' = Append(ran, step)
    /\ step' = step + 1
    /\ idx' = 1
    /\ successes' = <<>>
    /\ processed' = <<>>
    /\ failed' = {}
    /\ pc' = IF step = 5 THEN "returned" ELSE pc
    /\ UNCHANGED <<source_vars, call_vars>>
    /\ UNCHANGED <<found_jars, GLOBAL_FOUND_METADATA, jar_issues, java_file_issues,
                   exit_status, maven_repo, collaborators>>

(***************************************************************************)
(* Status reports and exit.                                                *)
(***************************************************************************)
jar_status_report(incomplete_jars) ==
    IF incomplete_jars = <<>> THEN 0 ELSE Len(incomplete_jars)

\* the low 8 bits of the argument of exit(), as wait() reports them
os_exit_status(code) == IF code >= 0 THEN code % 256 ELSE (256 - ((-code) % 256)) % 256

\* jar_status_report and java_file_status_report; the number of loose source
\* files without a src directory is an input here
StatusReports ==
    /\ pc = "returned"
    /\ jar_issues' = jar_status_report(remaining)
    /\ \E n \in 0..MaxJavaIssues : java_file_issues' = n
    /\ pc' = "reported"
    /\ UNCHANGED <<source_vars, call_vars>>
    /\ UNCHANGED <<found_jars, remaining, step, idx, successes, GLOBAL_FOUND_METADATA,
                   exit_status, processed, failed, ran, maven_repo, collaborators>>

\* exit(issues * -1)
ExitProcess ==
    /\ pc = "reported"
    /\ LET issues == jar_issues + java_file_issues
       IN exit_status' = os_exit_status(issues * (-1))
    /\ pc' = "exited"
    /\ UNCHANGED <<source_vars, call_vars>>
    /\ UNCHANGED <<found_jars, remaining, step, idx, successes, GLOBAL_FOUND_METADATA,
                   jar_issues, java_file_issues, processed, failed, ran, maven_repo,
                   collaborators>>

Next ==
    \/ FatalNoJars
    \/ BeginStrategies
    \/ jar_strategy_try_maven_install
    \/ metadata_strategy_infer_from_paths
    \/ metadata_strategy_parse_manifest
    \/ FillDummyValues
    \/ metadata_strategy_maven_install_from_metadata
    \/ StrategyReturn
    \/ StatusReports
    \/ ExitProcess

Spec == Init /\ [][Next]_vars

(***************************************************************************)
(* The run in which every jar stays unresolved: no jar installs, no        *)
(* listing or manifest yields a candidate, every record comes from dummy   *)
(* fill.  It is the state in which run_jar_strategies has returned, for    *)
(* any number of jars up to MaxIssues.                                     *)
(***************************************************************************)
DigitChars == <<"0","1","2","3","4","5","6","7","8","9">>

RECURSIVE Decimal(_)
Decimal(n) ==
    IF n < 10 THEN <<DigitChars[n + 1]>>
    ELSE Decimal(n \div 10) \o <<DigitChars[(n % 10) + 1]>>

NumberedJar(i) == <<"j">> \o Decimal(i) \o <<".", "j", "a", "r">>

InitExit ==
    /\ pc = "returned"
    /\ \E n \in 0..MaxIssues : found_jars = [i \in 1..n |-> NumberedJar(i)]
    /\ remaining = found_jars
    /\ step = 6
    /\ idx = 1
    /\ successes = <<>>
    /\ GLOBAL_FOUND_METADATA =
          [i \in 1..Len(found_jars) |->
              metadata_strategy_fill_dummy_values(<<>>, <<found_jars[i]>>)[1]]
    /\ jar_issues = 0
    /\ java_file_issues = 0
    /\ exit_status = -1
    /\ processed = <<>>
    /\ failed = {}
    /\ ran = <<1, 2, 3, 4, 5>>
    /\ maven_repo = <<>>
    /\ collaborators = [jar \in Range(found_jars) |-> AnyCollaborator]
    /\ NoSources
    /\ NoCall

NextExit == StatusReports \/ ExitProcess

SpecExit == InitExit /\ [][NextExit]_vars

(***************************************************************************)
(* The convergence scenario: three jars, one that the plain install        *)
(* command accepts, one whose manifest yields the four fields and whose    *)
(* listing yields nothing, one for which neither yields anything and whose *)
(* file name the validators accept; the install command with full          *)
(* coordinates always succeeds.                                            *)
(***************************************************************************)
NoCandidateListings ==
    {r \in ListingResponses :
        DOMAIN valid_metadata_of(infer_metadata_to_add(r.lines)) = {}}

FullManifests ==
    {r \in ManifestResponses :
        DOMAIN valid_metadata_of(parse_manifest(r.lines)) = FieldNames}

NoCandidateManifests ==
    {r \in ManifestResponses :
        DOMAIN valid_metadata_of(parse_manifest(r.lines)) = {}}

DummyResolvable(jar) ==
    LET base == os_path_basename(os_path_normpath(jar))
    IN \A k \in {"name", "artifact-id", "group-id"} :
          test_metadata_against_type_criteria(k, base)

InitConv ==
    /\ pc = "start"
    /\ found_jars \in {l \in JarLists : Len(l) = 3}
    /\ \E direct_jar, manifest_jar, dummy_jar \in Range(found_jars) :
          /\ Cardinality({direct_jar, manifest_jar, dummy_jar}) = 3
          /\ DummyResolvable(dummy_jar)
          /\ collaborators =
               [jar \in JarPool |->
                  IF jar = direct_jar
                  THEN [direct |-> {"zero"}, listing |-> ListingResponses,
                        manifest |-> ManifestResponses, coordinates |-> {"zero"}]
                  ELSE IF jar = manifest_jar
                  THEN [direct |-> {"nonzero", "raised"},
                        listing |-> NoCandidateListings,
                        manifest |-> FullManifests, coordinates |-> {"zero"}]
                  ELSE [direct |-> {"nonzero", "raised"},
                        listing |-> NoCandidateListings,
                        manifest |-> NoCandidateManifests, coordinates |-> {"zero"}]]
    /\ remaining = <<>>
    /\ step = 0
    /\ idx = 0
    /\ successes = <<>>
    /\ GLOBAL_FOUND_METADATA = <<>>
    /\ jar_issues = 0
    /\ java_file_issues = 0
    /\ exit_status = -1
    /\ processed = <<>>
    /\ failed = {}
    /\ ran = <<>>
    /\ maven_repo = <<>>
    /\ NoSources
    /\ NoCall

NextConv ==
    \/ BeginStrategies
    \/ jar_strategy_try_maven_install
    \/ metadata_strategy_infer_from_paths
    \/ metadata_strategy_parse_manifest
    \/ FillDummyValues
    \/ metadata_strategy_maven_install_from_metadata
    \/ StrategyReturn
    \/ StatusReports
    \/ ExitProcess

SpecConv == InitConv /\ [][NextConv]_vars

(***************************************************************************)
(* Properties.                                                             *)
(***************************************************************************)
NoDuplicates(l) == \A i, j \in 1..Len(l) : i /= j => l[i] /= l[j]

\* a is b with some positions left out, the order kept
IsSubsequence(a, b) ==
    \E f \in [1..Len(a) -> 1..Len(b)] :
        /\ \A i \in 1..Len(a) : a[i] = b[f[i]]
        /\ \A i, j \in 1..Len(a) : i < j => f[i] < f[j]

StoredJars == {GLOBAL_FOUND_METADATA[i].jar : i \in 1..Len(GLOBAL_FOUND_METADATA)}

\* the record has the four canonical fields and each value passes its validator
RecordComplete(meta) ==
    /\ FieldNames \subseteq DOMAIN meta
    /\ \A k \in FieldNames : test_metadata_against_type_criteria(k, meta[k])

AtStrategyBoundary == pc = "strategies" /\ step' /= step

\* C1: at every strategy boundary the Pending Set is a duplicate-free,
\* order-preserving subsequence of the Pending Set before the strategy; it is
\* the previous set minus exactly the jars the strategy returned, it gains no
\* jar, and strategies 2, 3 and 4 leave it unchanged.
C1_PendingShrinksByResult ==
    [][AtStrategyBoundary =>
          /\ NoDuplicates(remaining')
          /\ IsSubsequence(remaining', remaining)
          /\ Range(remaining') = Range(remaining) \ Range(successes)
          /\ (step \in {2, 3, 4} => remaining' = remaining)]_vars

C1_Witness ==
    /\ pc = "strategies"
    /\ step = 2
    /\ Len(remaining) >= 2
    /\ Len(remaining) < Len(found_jars)

C3_StoredValuesAreValid ==
    \A i \in 1..Len(GLOBAL_FOUND_METADATA) :
        \A k \in DOMAIN GLOBAL_FOUND_METADATA[i].meta :
            /\ k \in FieldNames
            /\ test_metadata_against_type_criteria(k, GLOBAL_FOUND_METADATA[i].meta[k])

MyLib == <<"m", "y", " ", "l", "i", "b">>

\* a record created by fill_metadata next to one in which the manifest's
\* title was kept as name and rejected as group-id
C3_Witness ==
    /\ pc = "strategies"
    /\ step = 5
    /\ \E i, j \in 1..Len(GLOBAL_FOUND_METADATA) :
          LET m == GLOBAL_FOUND_METADATA[i].meta
              n == GLOBAL_FOUND_METADATA[j].meta
          IN /\ "name" \in DOMAIN m /\ m["name"] = MyLib
             /\ "group-id" \in DOMAIN m /\ m["group-id"] /= MyLib
             /\ "version" \in DOMAIN n /\ n["version"] = DummyVersion

\* C4: through path inference, manifest extraction and dummy fill, a field
\* that holds a value is never removed and its value never changes.
C4_PresentFieldsAreKept ==
    [][(pc = "strategies" /\ step \in {2, 3, 4}) =>
          \A jar \in StoredJars :
              /\ HasJar(GLOBAL_FOUND_METADATA', jar)
              /\ \A k \in DOMAIN GetMeta(GLOBAL_FOUND_METADATA, jar) :
                    /\ k \in DOMAIN GetMeta(GLOBAL_FOUND_METADATA', jar)
                    /\ GetMeta(GLOBAL_FOUND_METADATA', jar)[k]
                          = GetMeta(GLOBAL_FOUND_METADATA, jar)[k]]_vars

\* a group-id inferred from the paths next to a name taken from the manifest
\* whose title would also have been a valid group-id
C4_Witness ==
    /\ pc = "strategies"
    /\ step = 5
    /\ \E i \in 1..Len(GLOBAL_FOUND_METADATA) :
          LET m == GLOBAL_FOUND_METADATA[i].meta
          IN /\ "group-id" \in DOMAIN m /\ m["group-id"] = <<"o", ".", "a">>
             /\ "name" \in DOMAIN m /\ m["name"] = <<"l", "i", "b">>
             /\ "version" \in DOMAIN m /\ m["version"] = <<"2", ".", "1">>

DummyValue(k, jar) ==
    IF k = "version" THEN DummyVersion ELSE os_path_basename(os_path_normpath(jar))

\* C6: for every jar dummy fill processes, every field absent before the step
\* is present afterwards, version as "1.0" and the others as the jar's base
\* file name.
C6_DummyFillFillsEveryAbsentField ==
    [][(pc = "strategies" /\ step = 4 /\ step' = 5) =>
          \A jar \in Range(strategy_jars) : \A k \in FieldNames :
              (~HasJar(GLOBAL_FOUND_METADATA, jar)
                  \/ k \notin DOMAIN GetMeta(GLOBAL_FOUND_METADATA, jar))
              => /\ HasJar(GLOBAL_FOUND_METADATA', jar)
                 /\ k \in DOMAIN GetMeta(GLOBAL_FOUND_METADATA', jar)
                 /\ GetMeta(GLOBAL_FOUND_METADATA', jar)[k] = DummyValue(k, jar)]_vars

\* C7: find_metadata_complete_jars puts a record under complete exactly when
\* it has the four canonical fields and each value passes its validator, and
\* under partial otherwise.
C7_CompleteIffFourValidFields ==
    LET result == find_metadata_complete_jars(GLOBAL_FOUND_METADATA)
    IN \A i \in 1..Len(GLOBAL_FOUND_METADATA) :
          LET e == GLOBAL_FOUND_METADATA[i]
          IN /\ e \in Range(result[1]) <=> RecordComplete(e.meta)
             /\ e \in Range(result[2]) <=> ~RecordComplete(e.meta)

C7_Witness ==
    /\ pc = "strategies"
    /\ step = 5
    /\ idx = 1
    /\ Len(find_metadata_complete_jars(GLOBAL_FOUND_METADATA)[1]) >= 1
    /\ Len(find_metadata_complete_jars(GLOBAL_FOUND_METADATA)[2]) >= 1

\* C8: what a strategy attempts and returns is part of the Pending Set it was
\* given, and no jar is installed twice.
C8_ResultWithinPending ==
    /\ pc = "strategies" =>
          /\ Range(successes) \subseteq Range(remaining)
          /\ Range(processed) \subseteq Range(remaining)
    /\ NoDuplicates(maven_repo)

C8_Witness ==
    /\ pc = "strategies"
    /\ step = 5
    /\ successes /= <<>>
    /\ Range(found_jars) \ Range(remaining) /= {}

\* C9: a failed collaborator call leaves the jar without progress, the
\* strategy still handles every jar of its list, and the five strategies run
\* once each, in order, before the pipeline returns.
C9_FailuresAreLocal ==
    [][/\ (failed' /= failed /\ failed' /= {}) =>
              /\ GLOBAL_FOUND_METADATA' = GLOBAL_FOUND_METADATA
              /\ successes' = successes
              /\ remaining' = remaining
              /\ maven_repo' = maven_repo
       /\ (AtStrategyBoundary /\ step /= 4) => processed = strategy_jars
       /\ AtStrategyBoundary => (step' = step + 1 /\ ran' = Append(ran, step))
       /\ (pc = "strategies" /\ pc' = "returned") => ran' = <<1, 2, 3, 4, 5>>]_vars

\* the first jar of the metadata-driven install failed and a later one was
\* installed
C9_Witness ==
    /\ pc = "strategies"
    /\ step = 5
    /\ Len(processed) >= 2
    /\ processed[1] \in failed
    /\ processed[2] \in Range(successes)

\* C10: the exit status is zero exactly when no jar and no loose source file
\* is left unresolved.
C10_ExitZeroIffNoIssues ==
    (pc = "exited" /\ ran = <<1, 2, 3, 4, 5>>) =>
        (exit_status = 0 <=> jar_issues + java_file_issues = 0)

(***************************************************************************)
(* Loose source reconciliation: posixpath helpers, the filters, the        *)
(* trailing-path comparator and identify_unique_loose_java_files.          *)
(***************************************************************************)
\* str.rfind(c): 0-based position of the last c, -1 without one
rfind_char(s, c) ==
    IF c \in Range(s)
    THEN (CHOOSE i \in 1..Len(s) : s[i] = c /\ \A j \in (i + 1)..Len(s) : s[j] /= c) - 1
    ELSE -1

\* str.rstrip('/')
RECURSIVE RStripSlash(_)
RStripSlash(s) ==
    IF s /= <<>> /\ s[Len(s)] = "/" THEN RStripSlash(SubSeq(s, 1, Len(s) - 1)) ELSE s

\* posixpath.split: <<head, tail>>; a head made of slashes only is kept
os_path_split(p) ==
    LET i == rfind_char(p, "/") + 1
        head == SliceTo(p, i)
        tail == SliceFrom(p, i)
    IN IF head /= <<>> /\ Range(head) /= {"/"}
       THEN <<RStripSlash(head), tail>>
       ELSE <<head, tail>>

\* posixpath.join of two components
os_path_join(a, b) ==
    IF b /= <<>> /\ Head(b) = "/" THEN b
    ELSE IF a = <<>> \/ a[Len(a)] = "/" THEN a \o b
    ELSE a \o <<"/">> \o b

\* the root of posixpath.splitext: the last dot of the last component starts
\* the extension unless only dots precede it in that component
os_path_splitext_root(p) ==
    LET sepIndex == rfind_char(p, "/")
        dotIndex == rfind_char(p, ".")
    IN IF /\ dotIndex > sepIndex
          /\ \E filenameIndex \in (sepIndex + 1)..(dotIndex - 1) :
                p[filenameIndex + 1] /= "."
       THEN SliceTo(p, dotIndex)
       ELSE p

\* list(dict.fromkeys(duplicates))
dedupe(duplicates) ==
    IF duplicates = <<>> THEN duplicates ELSE remove_duplicates(duplicates)

with_src_main(file_paths) ==
    LET src_main_path == os_path_join(<<"s","r","c">>, <<"m","a","i","n">>)
        Accepted(file_path) == file_path /= <<>> /\ Contains(file_path, src_main_path)
    IN SelectSeq(file_paths, Accepted)

without_compiled_inner_classes(file_paths) ==
    LET Outer(file_path) ==
            file_path /= <<>> /\ "$" \notin Range(os_path_basename(file_path))
    IN SelectSeq(file_paths, Outer)

without_file_extensions(file_paths) ==
    LET NonEmpty(file_path) == file_path /= <<>>
        kept == SelectSeq(file_paths, NonEmpty)
    IN [i \in 1..Len(kept) |-> os_path_splitext_root(kept[i])]

\* the match statement is passed by two str arguments (a str is no sequence
\* pattern); the recursive call is made on the two file names
RECURSIVE compare_last_url_components(_, _, _)
compare_last_url_components(string, compare_to, max_number_of_components) ==
    IF string = None /\ compare_to = None THEN TRUE
    ELSE IF string = None \/ compare_to = None THEN FALSE
    ELSE IF max_number_of_components <= 0 THEN TRUE
    ELSE LET filename == os_path_split(string)[2]
             compare_filename == os_path_split(compare_to)[2]
         IN IF filename = compare_filename
            THEN compare_last_url_components(filename, compare_filename,
                                             max_number_of_components - 1)
            ELSE FALSE

\* default of max_number_of_components
DefaultComponents == 3

\* the entries of the jars a loose file is compared with
jar_based_java_files_of(java_files_in_jars) ==
    without_compiled_inner_classes(without_file_extensions(java_files_in_jars))

\* any(compare_last_url_components(loose_file, f) for f in jar_based_java_files)
any_match(loose_file, jar_based_java_files) ==
    \E k \in 1..Len(jar_based_java_files) :
        compare_last_url_components(loose_file, jar_based_java_files[k],
                                    DefaultComponents)

\* the loop appends the loose file in the branch where any() found a match
identify_unique_loose_java_files(loose, java_files_in_jars) ==
    LET loose_java_files == without_file_extensions(loose)
        jar_based_java_files == jar_based_java_files_of(java_files_in_jars)
        Matched(index) == any_match(loose_java_files[index], jar_based_java_files)
        indices == SelectSeq([i \in 1..Len(loose_java_files) |-> i], Matched)
        unique_java_files == [n \in 1..Len(indices) |-> loose[indices[n]]]
    IN dedupe(unique_java_files)

(***************************************************************************)
(* The reconciliation part of __main__ as a state machine; the walk of     *)
(* from_root_to_src_dir is taken one loop pass at a time.                  *)
(***************************************************************************)
MaxLooseFiles == 2

MaxFilesInJars == 2

\* passes of the while loop followed for one path
MaxIterations == 8

\* loose .java files: src in the middle, src first, an absolute path with
\* the text src/main but no src component, an absolute path, no src/main
LooseJavaFilePool ==
    { <<"p","/","s","r","c","/","m","a","i","n","/","o","/","F","o","o",".","j","a","v","a">>,
      <<"s","r","c","/","m","a","i","n","/","F","o","o",".","j","a","v","a">>,
      <<"/","r","/","x","s","r","c","/","m","a","i","n","/","B","a","r",".","j","a","v","a">>,
      <<"/","r","/","s","r","c","/","m","a","i","n","/","B","a","r",".","j","a","v","a">>,
      <<"q","/","B","a","z",".","j","a","v","a">> }

\* entries of the jars: compiled units, an inner unit, a source file
JavaFilesInJarsPool ==
    { <<"o","/","F","o","o",".","c","l","a","s","s">>,
      <<"o","/","F","o","o","$","1",".","c","l","a","s","s">>,
      <<"t","/","B","a","r",".","j","a","v","a">>,
      <<"u","/","B","a","z",".","c","l","a","s","s">>,
      <<"Z","e","d",".","c","l","a","s","s">> }

\* add_to_global_java_files keeps both lists free of duplicates
DuplicateFreeLists(pool, n) ==
    {l \in UNION {[1..m -> pool] : m \in 0..n} :
        \A i, j \in 1..Len(l) : i /= j => l[i] /= l[j]}

\* the jar pipeline returned; the two global lists hold what the scan found
InitSources ==
    /\ pc = "identify_unique_loose_java_files"
    /\ GLOBAL_LOOSE_JAVA_FILES \in DuplicateFreeLists(LooseJavaFilePool, MaxLooseFiles)
    /\ GLOBAL_JAVA_FILES_IN_JARS \in DuplicateFreeLists(JavaFilesInJarsPool, MaxFilesInJars)
    /\ loose_java_file_paths = <<>>
    /\ java_file_paths_with_src_dir = <<>>
    /\ java_files_skipped = {}
    /\ paths_idx = 1
    /\ path_from_root_to_component = <<>>
    /\ path_component = <<>>
    /\ src_paths = <<>>
    /\ iterations = 0
    /\ dirs_to_copy = <<>>
    /\ found_jars = <<>>
    /\ remaining = <<>>
    /\ step = 0
    /\ idx = 0
    /\ successes = <<>>
    /\ GLOBAL_FOUND_METADATA = <<>>
    /\ jar_issues = 0
    /\ java_file_issues = 0
    /\ exit_status = -1
    /\ collaborators = [jar \in {} |-> AnyCollaborator]
    /\ processed = <<>>
    /\ failed = {}
    /\ ran = <<1, 2, 3, 4, 5>>
    /\ maven_repo = <<>>
    /\ NoCall

IdentifyUnique ==
    /\ pc = "identify_unique_loose_java_files"
    /\ loose_java_file_paths' =
           identify_unique_loose_java_files(GLOBAL_LOOSE_JAVA_FILES,
                                            GLOBAL_JAVA_FILES_IN_JARS)
    /\ pc' = "with_src_main"
    /\ UNCHANGED <<jar_vars, call_vars>>
    /\ UNCHANGED <<GLOBAL_LOOSE_JAVA_FILES, GLOBAL_JAVA_FILES_IN_JARS,
                   java_file_paths_with_src_dir, java_files_skipped, paths_idx,
                   path_from_root_to_component, path_component, src_paths,
                   iterations, dirs_to_copy>>

\* with_src_main and the set difference that gives java_files_skipped
WithSrcMain ==
    /\ pc = "with_src_main"
    /\ java_file_paths_with_src_dir' = with_src_main(loose_java_file_paths)
    /\ java_files_skipped' =
           Range(loose_java_file_paths) \ Range(with_src_main(loose_java_file_paths))
    /\ paths_idx' = 1
    /\ src_paths' = <<>>
    /\ pc' = "for"
    /\ UNCHANGED <<jar_vars, call_vars>>
    /\ UNCHANGED <<GLOBAL_LOOSE_JAVA_FILES, GLOBAL_JAVA_FILES_IN_JARS,
                   loose_java_file_paths, path_from_root_to_component,
                   path_component, iterations, dirs_to_copy>>

\* for full_path in paths: the first os.path.split
ForNextPath ==
    /\ pc = "for"
    /\ paths_idx <= Len(java_file_paths_with_src_dir)
    /\ LET full_path == java_file_paths_with_src_dir[paths_idx]
       IN /\ path_from_root_to_component' = os_path_split(full_path)[1]
          /\ path_component' = os_path_split(full_path)[2]
    /\ iterations' = 0
    /\ pc' = "while"
    /\ UNCHANGED <<jar_vars, call_vars>>
    /\ UNCHANGED <<GLOBAL_LOOSE_JAVA_FILES, GLOBAL_JAVA_FILES_IN_JARS,
                   loose_java_file_paths, java_file_paths_with_src_dir,
                   java_files_skipped, paths_idx, src_paths, dirs_to_copy>>

\* the loop test fails: the walk of this path ends without a directory
WhileExit ==
    /\ pc = "while"
    /\ path_from_root_to_component = <<>>
    /\ paths_idx' = paths_idx + 1
    /\ pc' = "for"
    /\ UNCHANGED <<jar_vars, call_vars>>
    /\ UNCHANGED <<GLOBAL_LOOSE_JAVA_FILES, GLOBAL_JAVA_FILES_IN_JARS,
                   loose_java_file_paths, java_file_paths_with_src_dir,
                   java_files_skipped, path_from_root_to_component,
                   path_component, src_paths, iterations, dirs_to_copy>>

\* the component is src: append and break
WhileFound ==
    /\ pc = "while"
    /\ path_from_root_to_component /= <<>>
    /\ path_component = <<"s","r","c">>
    /\ src_paths' = Append(src_paths,
                           os_path_join(path_from_root_to_component, path_component))
    /\ paths_idx' = paths_idx + 1
    /\ pc' = "for"
    /\ UNCHANGED <<jar_vars, call_vars>>
    /\ UNCHANGED <<GLOBAL_LOOSE_JAVA_FILES, GLOBAL_JAVA_FILES_IN_JARS,
                   loose_java_file_paths, java_file_paths_with_src_dir,
                   java_files_skipped, path_from_root_to_component,
                   path_component, iterations, dirs_to_copy>>

\* one step up: os.path.split of the head
WhileUp ==
    /\ pc = "while"
    /\ path_from_root_to_component /= <<>>
    /\ path_component /= <<"s","r","c">>
    /\ iterations < MaxIterations
    /\ path_component' = os_path_split(path_from_root_to_component)[2]
    /\ path_from_root_to_component' = os_path_split(path_from_root_to_component)[1]
    /\ iterations' = iterations + 1
    /\ UNCHANGED <<jar_vars, call_vars>>
    /\ UNCHANGED <<pc, GLOBAL_LOOSE_JAVA_FILES, GLOBAL_JAVA_FILES_IN_JARS,
                   loose_java_file_paths, java_file_paths_with_src_dir,
                   java_files_skipped, paths_idx, src_paths, dirs_to_copy>>

\* the for loop is over: dirs_to_copy = dedupe(from_root_to_src_dir(...))
ForDone ==
    /\ pc = "for"
    /\ paths_idx > Len(java_file_paths_with_src_dir)
    /\ dirs_to_copy' = dedupe(src_paths)
    /\ pc' = "copy_files_to_external_dir"
    /\ UNCHANGED <<jar_vars, call_vars>>
    /\ UNCHANGED <<GLOBAL_LOOSE_JAVA_FILES, GLOBAL_JAVA_FILES_IN_JARS,
                   loose_java_file_paths, java_file_paths_with_src_dir,
                   java_files_skipped, paths_idx, path_from_root_to_component,
                   path_component, src_paths, iterations>>

NextSources ==
    \/ IdentifyUnique
    \/ WithSrcMain
    \/ ForNextPath
    \/ WhileExit
    \/ WhileFound
    \/ WhileUp
    \/ ForDone

SpecSources == InitSources /\ [][NextSources]_vars

\* C11: once identify_unique_loose_java_files has returned, a loose source file
\* is in its result exactly when no entry of the jars (extension stripped, inner
\* compiled units left out) matches its trailing path components
C11_UniqueIffNoEntryMatches ==
    pc /= "identify_unique_loose_java_files" =>
        \A i \in 1..Len(GLOBAL_LOOSE_JAVA_FILES) :
            LET loose_file == os_path_splitext_root(GLOBAL_LOOSE_JAVA_FILES[i])
                entries == jar_based_java_files_of(GLOBAL_JAVA_FILES_IN_JARS)
            IN GLOBAL_LOOSE_JAVA_FILES[i] \in Range(loose_java_file_paths)
                   <=> ~ any_match(loose_file, entries)

\* a directory component of the path, the file name excluded, is named src
HasSrcAncestor(path) ==
    LET comps == SplitSlash(path)
    IN \E k \in 1..(Len(comps) - 1) : comps[k] = <<"s","r","c">>

\* the path from the root down to the last directory component named src
NearestSrcAncestor(path) ==
    LET comps == SplitSlash(path)
        k == CHOOSE n \in 1..(Len(comps) - 1) :
                 /\ comps[n] = <<"s","r","c">>
                 /\ \A j \in (n + 1)..(Len(comps) - 1) : comps[j] /= <<"s","r","c">>
    IN JoinSlash(SubSeq(comps, 1, k))

\* each pass of the while loop drops one component of the path, so a walk
\* that terminates makes no more passes than the path has components
WalkTerminates ==
    pc = "while" =>
        iterations <= Len(SplitSlash(java_file_paths_with_src_dir[paths_idx]))

\* when the walks are over, the nearest ancestor directory named src of every
\* accepted path that has one is in the staging plan
NearestSrcStaged ==
    pc = "copy_files_to_external_dir" =>
        \A i \in 1..Len(java_file_paths_with_src_dir) :
            HasSrcAncestor(java_file_paths_with_src_dir[i]) =>
                NearestSrcAncestor(java_file_paths_with_src_dir[i])
                    \in Range(dirs_to_copy)

\* C15: for every unique loose file with_src_main accepted, absolute or
\* relative, the upward walk of from_root_to_src_dir terminates, and it adds
\* the nearest ancestor directory named src to the staging plan whenever the
\* path has such a component
C15_WalkTerminatesAtNearestSrc == WalkTerminates /\ NearestSrcStaged

(***************************************************************************)
(* The pure functions applied to bounded inputs: a call is drawn, the      *)
(* function is applied once and its result is kept in ret.                 *)
(***************************************************************************)
\* neither the jar pipeline nor the reconciliation runs
NoJarRun ==
    /\ found_jars = <<>>
    /\ remaining = <<>>
    /\ step = 0
    /\ idx = 0
    /\ successes = <<>>
    /\ GLOBAL_FOUND_METADATA = <<>>
    /\ jar_issues = 0
    /\ java_file_issues = 0
    /\ exit_status = -1
    /\ collaborators = [jar \in {} |-> AnyCollaborator]
    /\ processed = <<>>
    /\ failed = {}
    /\ ran = <<>>
    /\ maven_repo = <<>>

MaxSubstrings == 4

\* cleaned prefixes as the listing a/b.class, a/c.class, a/d.class, z.class
\* gives them
SubstringPool ==
    { <<"a">>,
      <<"a","/","b">>,
      <<"a","/","c">>,
      <<"a","/","d">>,
      <<"z">> }

InitSubstrings ==
    /\ pc = "call"
    /\ \E all_substrings \in DuplicateFreeLists(SubstringPool, MaxSubstrings) :
          call = [fn |-> "find_longest_common_substring",
                  all_substrings |-> all_substrings]
    /\ ret = <<>>
    /\ NoJarRun
    /\ NoSources

CallFindLongestCommonSubstring ==
    /\ pc = "call"
    /\ call.fn = "find_longest_common_substring"
    /\ ret' = find_longest_common_substring(call.all_substrings)
    /\ pc' = "return"
    /\ UNCHANGED <<jar_vars, source_vars, call>>

NextSubstrings == CallFindLongestCommonSubstring

SpecSubstrings == InitSubstrings /\ [][NextSubstrings]_vars

\* the number of members of the universe that contain the substring
OccurrenceCount(universe, substring) ==
    Cardinality({j \in 1..Len(universe) : Contains(universe[j], substring)})

\* the highest occurrence count of any substring of a non-empty universe
HighestOccurrenceCount(universe) ==
    CHOOSE m \in {OccurrenceCount(universe, x) : x \in Range(universe)} :
        \A x \in Range(universe) : OccurrenceCount(universe, x) <= m

\* C12: for every duplicate-free substring universe, in whatever order it was
\* collected, find_longest_common_substring returns the lexicographic maximum
\* of exactly the substrings whose occurrence count is at least
\* floor(0.80 x max_occ), max_occ being the highest occurrence count in the
\* universe; it returns the empty string for the empty universe
C12_LexMaxOfHighOccurrence ==
    (pc = "return" /\ call.fn = "find_longest_common_substring") =>
        LET universe == call.all_substrings
            max_occ == HighestOccurrenceCount(universe)
            retained == {x \in Range(universe) :
                            OccurrenceCount(universe, x) >=
                                (max_occ * COMMONALITY_THRESHOLD_PERCENT) \div 100}
        IN IF universe = <<>> THEN ret = <<>> ELSE ret = StrMax(retained)

MaxManifestLines == 3

\* manifest lines: two headers at the start of the line, a header in the
\* middle of a line, a header in lower case with blanks around the value, an
\* empty line
ManifestLinePool ==
    { <<"I","m","p","l","e","m","e","n","t","a","t","i","o","n","-","T","i","t","l","e",":"," ","A">>,
      <<"B","u","n","d","l","e","-","S","y","m","b","o","l","i","c","N","a","m","e",":"," ","B">>,
      <<"X","-","B","u","n","d","l","e","-","V","e","r","s","i","o","n",":"," ","1",".","0">>,
      <<"b","u","n","d","l","e","-","v","e","r","s","i","o","n",":"," "," ","2"," ">>,
      <<>> }

\* manifest.splitlines() of a manifest of at most MaxManifestLines lines
ManifestTexts == UNION {[1..n -> ManifestLinePool] : n \in 0..MaxManifestLines}

InitManifest ==
    /\ pc = "call"
    /\ \E manifest \in ManifestTexts :
          call = [fn |-> "parse_manifest", manifest |-> manifest]
    /\ ret = <<>>
    /\ NoJarRun
    /\ NoSources

CallParseManifest ==
    /\ pc = "call"
    /\ call.fn = "parse_manifest"
    /\ ret' = parse_manifest(call.manifest)
    /\ pc' = "return"
    /\ UNCHANGED <<jar_vars, source_vars, call>>

NextManifest == CallParseManifest

SpecManifest == InitManifest /\ [][NextManifest]_vars

\* the whitespace-trimmed text that follows the first occurrence of the header
\* in a line that contains it, letter case ignored
TextAfterHeader(header, line) ==
    LET at == CHOOSE i \in 0..(Len(line) - Len(header)) :
                  /\ ToLower(SubSeq(line, i + 1, i + Len(header))) = ToLower(header)
                  /\ \A j \in 0..(i - 1) :
                        ToLower(SubSeq(line, j + 1, j + Len(header))) /= ToLower(header)
    IN Strip(SliceFrom(line, at + Len(header)))

\* positions in the field's precedence list of the synonyms some line matches
MatchingSynonyms(field, manifest) ==
    LET synonyms == metadata_key_to_manifest_search_strings_map(field)
    IN {n \in 1..Len(synonyms) :
           \E l \in 1..Len(manifest) : re_search_ignorecase(synonyms[n], manifest[l])}

\* C13: for each canonical field, parse_manifest returns the trimmed text that
\* follows the header on a line matched by the last synonym of the field's
\* precedence list that matches any line, whatever the order of the lines and
\* wherever in the line the header is; a field none of whose synonyms match is
\* absent from the result
C13_LastMatchingSynonymWins ==
    (pc = "return" /\ call.fn = "parse_manifest") =>
        \A field \in FieldNames :
            LET synonyms == metadata_key_to_manifest_search_strings_map(field)
                matching == MatchingSynonyms(field, call.manifest)
                last == CHOOSE n \in matching : \A o \in matching : o <= n
            IN IF matching = {}
               THEN field \notin DOMAIN ret
               ELSE /\ field \in DOMAIN ret
                    /\ \E l \in 1..Len(call.manifest) :
                          /\ re_search_ignorecase(synonyms[last], call.manifest[l])
                          /\ ret[field] = TextAfterHeader(synonyms[last], call.manifest[l])

MaxValueLen == 3

\* a letter, a digit, the dot, the bar, the blank
ValueAlphabet == {"a", "1", ".", "|", " "}

\* the values handed to the validator: None and every string over the alphabet
MetadataValues ==
    {None} \cup UNION {[1..n -> ValueAlphabet] : n \in 0..MaxValueLen}

InitValidator ==
    /\ pc = "call"
    /\ \E metadata_type \in FieldNames, metadata_value \in MetadataValues :
          call = [fn |-> "test_metadata_against_type_criteria",
                  metadata_type |-> metadata_type,
                  metadata_value |-> metadata_value]
    /\ ret = <<>>
    /\ NoJarRun
    /\ NoSources

CallTestMetadataAgainstTypeCriteria ==
    /\ pc = "call"
    /\ call.fn = "test_metadata_against_type_criteria"
    /\ ret' = test_metadata_against_type_criteria(call.metadata_type,
                                                  call.metadata_value)
    /\ pc' = "return"
    /\ UNCHANGED <<jar_vars, source_vars, call>>

NextValidator == CallTestMetadataAgainstTypeCriteria

SpecValidator == InitValidator /\ [][NextValidator]_vars

IsLetter(c) == c \in Range(UpperChars) \cup Range(LowerChars)

\* the shape the field requires of a value
ShapeRule(field, value) ==
    LET alphabetic == \E i \in 1..Len(value) : IsLetter(value[i])
        no_whitespace == \A i \in 1..Len(value) : ~IsSpace(value[i])
        digit == \E i \in 1..Len(value) : value[i] \in Digits
        dot_between_segments == \E i \in 2..(Len(value) - 1) : value[i] = "."
    IN /\ value /= None
       /\ value /= <<>>
       /\ CASE field = "name" -> alphabetic
            [] field \in {"group-id", "artifact-id"} -> alphabetic /\ no_whitespace
            [] field = "version" -> dot_between_segments /\ digit /\ no_whitespace

\* C14: for every canonical field and every string over the alphabet of
\* letters, digits, dot, bar and blank, the validator accepts exactly when the
\* shape rule of the field holds: name has an alphabetic character; group-id
\* and artifact-id have an alphabetic character and no whitespace anywhere;
\* version has a dot between non-empty segments, a digit and no whitespace
\* anywhere; a null or empty value is rejected
C14_AcceptsExactlyTheShape ==
    (pc = "return" /\ call.fn = "test_metadata_against_type_criteria") =>
        (ret <=> ShapeRule(call.metadata_type, call.metadata_value))

====
